---- MODULE Spec2Model ----
(***************************************************************************)
(* Hull-White one-factor short-rate model                                  *)
(* (ql/ShortRateModels/OneFactorModels/hullwhite.hpp).                     *)
(*                                                                         *)
(* The header defines the fitting parameter phi(t) (HullWhiteImpl::value), *)
(* the Dynamics transforms variable/shortRate and HullWhite::dynamics().   *)
(* The bodies of the constructor, generateParameters, tree,                *)
(* discountBondOption and A live in hullwhite.cpp, and Model, Parameter,   *)
(* RelinkableHandle and TermStructure in other headers; what the model     *)
(* needs of those is taken from the specification document.                *)
(*                                                                         *)
(* A C++ double is modelled as a binary floating-point number with        *)
(* Precision significand bits (53 in the build), gradual underflow at      *)
(* 2^-Frac and round-to-nearest-even, plus NaN and the infinities.  A      *)
(* finite value is held as an integer count of units of 2^-Frac.           *)
(***************************************************************************)
EXTENDS Integers, Sequences, FiniteSets

\* Significand bits of the floating-point format (53 for a C++ double).
Precision == 4
\* Fractional bits: the smallest positive value of the format is 2^-Frac.
Frac == 6
One  == 2^Frac
Half == One \div 2

Abs(n) == IF n < 0 THEN -n ELSE n
Sgn(n) == IF n < 0 THEN -1 ELSE IF n > 0 THEN 1 ELSE 0

-----------------------------------------------------------------------------
(* double: values *)

Fin(n) == [cls |-> "fin", v |-> n]
NaN    == [cls |-> "nan", v |-> 0]
Inf(s) == [cls |-> "inf", v |-> s]

IsFin(x) == x.cls = "fin"
IsNaN(x) == x.cls = "nan"
IsInf(x) == x.cls = "inf"

\* Sign of a non-NaN double, a zero counting as positive.
SignOf(x) == IF x.v < 0 THEN -1 ELSE 1

(* double: rounding *)

\* p/q (q > 0, p >= 0) rounded to the nearest integer, ties to even.
RoundHalfEven(p, q) ==
    LET f == p \div q
        r == p - f * q
    IN  IF 2 * r < q THEN f
        ELSE IF 2 * r > q THEN f + 1
        ELSE IF f % 2 = 0 THEN f ELSE f + 1

\* Distance between neighbouring doubles around a magnitude of f units.
RECURSIVE Spacing(_)
Spacing(f) == IF f < 2^Precision THEN 1 ELSE 2 * Spacing(f \div 2)

\* The double nearest to p/q units (q > 0).
RoundF(p, q) ==
    LET m == Abs(p)
        s == Spacing(m \div q)
    IN  Fin(Sgn(p) * s * RoundHalfEven(m, q * s))

(* double: arithmetic *)

FNeg(x) == IF IsNaN(x) THEN NaN ELSE [x EXCEPT !.v = -x.v]

FAdd(x, y) ==
    IF IsNaN(x) \/ IsNaN(y) THEN NaN
    ELSE IF IsInf(x) /\ IsInf(y) THEN (IF x.v = y.v THEN x ELSE NaN)
    ELSE IF IsInf(x) THEN x
    ELSE IF IsInf(y) THEN y
    ELSE RoundF(x.v + y.v, 1)

FSub(x, y) == FAdd(x, FNeg(y))

FMul(x, y) ==
    IF IsNaN(x) \/ IsNaN(y) THEN NaN
    ELSE IF IsInf(x) \/ IsInf(y)
         THEN (IF x.v = 0 \/ y.v = 0 THEN NaN ELSE Inf(SignOf(x) * SignOf(y)))
    ELSE RoundF(x.v * y.v, One)

FDiv(x, y) ==
    IF IsNaN(x) \/ IsNaN(y) THEN NaN
    ELSE IF IsInf(x) THEN (IF IsInf(y) THEN NaN ELSE Inf(SignOf(x) * SignOf(y)))
    ELSE IF IsInf(y) THEN Fin(0)
    ELSE IF y.v = 0 THEN (IF x.v = 0 THEN NaN ELSE Inf(SignOf(x)))
    ELSE RoundF(Sgn(y.v) * x.v * One, Abs(y.v))

(* QL_EXP *)

\* Fractional bits of the exponential's working precision.
ExpBits  == 24
ExpScale == 2^ExpBits
ExpHalf  == 2^(ExpBits \div 2)
\* ln 2 in units of 1/ExpScale.
Ln2 == 11629080
\* Terms of the Taylor series that are kept.
ExpTerms == 8

\* a * b / ExpScale for 0 <= a, b < 2 * ExpScale, from half-width products so
\* that no intermediate exceeds 32 bits.
ExpMul(a, b) ==
    LET ah == a \div ExpHalf
        al == a % ExpHalf
        bh == b \div ExpHalf
        bl == b % ExpHalf
    IN  ah * bh + (ah * bl + al * bh) \div ExpHalf + (al * bl) \div ExpScale

\* ExpScale * (1 + r/n (1 + r/(n+1) (1 + ...))), r in units of 1/ExpScale
\* with |r| <= ln(2)/2; at n = 1 this is exp(r) * ExpScale.
RECURSIVE ExpSeries(_, _)
ExpSeries(r, n) ==
    IF n > ExpTerms THEN ExpScale
    ELSE LET q == RoundHalfEven(ExpMul(Abs(r), ExpSeries(r, n + 1)), n)
         IN  IF r >= 0 THEN ExpScale + q ELSE ExpScale - q

\* exp(x) = 2^k * exp(r) with x = k ln 2 + r, rounded to the format.  The
\* result is held in units of 2^-Frac, so x is below (30 - Frac) ln 2.
FExp(x) ==
    IF IsNaN(x) THEN NaN
    ELSE IF IsInf(x) THEN (IF x.v > 0 THEN x ELSE Fin(0))
    ELSE IF x.v <= -(Frac + 2) * One THEN Fin(0)
    ELSE LET xs == x.v * (ExpScale \div One)
             k  == (xs + Ln2 \div 2) \div Ln2
             e  == ExpSeries(xs - k * Ln2, 1)
             sh == k + Frac - ExpBits
         IN  IF sh >= 0 THEN Fin(RoundF(e, 1).v * 2^sh)
             ELSE RoundF(e, 2^(-sh))

-----------------------------------------------------------------------------
(* TermStructure: two market curves.  Curve 1 is flat and runs to t = 2,   *)
(* curve 2 rises with t and ends at t = 1.                                 *)

CurveIds == {1, 2}

Curve_maxTime(c) == IF c = 1 THEN 2 * One ELSE One

Curve_forwardRate(c, t) ==
    IF c = 1 THEN Fin(One \div 16) ELSE RoundF(One \div 8 + t.v \div 8, 1)

\* The out-of-domain error a curve raises.
CurveLookupError(c) == [cls |-> "throw", v |-> c]

IsThrow(x) == x.cls = "throw"

TermStructure_forward(c, t) ==
    IF t.v < 0 \/ t.v > Curve_maxTime(c) THEN CurveLookupError(c)
    ELSE Curve_forwardRate(c, t)

-----------------------------------------------------------------------------
(* The heap: HullWhiteImpl objects and the link cells of relinkable        *)
(* handles.  A RelinkableHandle value is the id of its link cell; copies   *)
(* of a handle share the cell.                                             *)

\* The caller holds at most one Dynamics, so at most three implementation
\* objects exist at a time: the model's, the Dynamics' and the one being built.
ImplIds == {1, 2, 3}
LinkIds == {1, 2}

NoImpl == [alive |-> FALSE, termStructure_ |-> 0, a_ |-> Fin(0), sigma_ |-> Fin(0)]

\* The curve a relinkable handle currently points to.
RelinkableHandle_deref(h, handle) == h.links[handle]

\* Handle<T> is reference counted: an object no handle refers to is deleted.
Handle_release(h, live) ==
    [h EXCEPT !.impls = [i \in ImplIds |-> IF i \in live THEN h.impls[i] ELSE NoImpl]]

-----------------------------------------------------------------------------
(* HullWhite::FittingParameter and its implementation                      *)

\* Mutant: the constructor stores its two constants the wrong way round.
HullWhiteImplSwapped(termStructure, a, sigma) ==
    [alive |-> TRUE, termStructure_ |-> termStructure, a_ |-> sigma, sigma_ |-> a]

HullWhiteImpl(termStructure, a, sigma) ==
    [alive |-> TRUE, termStructure_ |-> termStructure, a_ |-> a, sigma_ |-> sigma]

\* Mutant: the mean-reversion speed is read from the params array when it
\* has one, instead of the captured a_.
HullWhiteImpl_valueFromParams(impl, h, params, t) ==
    LET c == RelinkableHandle_deref(h, impl.termStructure_)
        forwardRate == TermStructure_forward(c, t)
        a == IF Len(params) > 0 THEN params[1] ELSE impl.a_
        temp == FDiv(FMul(impl.sigma_, FSub(Fin(One), FExp(FMul(FNeg(a), t)))), a)
    IN  [res     |-> IF IsThrow(forwardRate) THEN forwardRate
                     ELSE FAdd(forwardRate, FMul(FMul(Fin(Half), temp), temp)),
         queries |-> << [curve |-> c, t |-> t] >>]

HullWhiteImpl_value(impl, h, params, t) ==
    LET c == RelinkableHandle_deref(h, impl.termStructure_)
        forwardRate == TermStructure_forward(c, t)
        temp == FDiv(FMul(impl.sigma_,
                          FSub(Fin(One), FExp(FMul(FNeg(impl.a_), t)))),
                     impl.a_)
    IN  [res     |-> IF IsThrow(forwardRate) THEN forwardRate
                     ELSE FAdd(forwardRate, FMul(FMul(Fin(Half), temp), temp)),
         queries |-> << [curve |-> c, t |-> t] >>]

\* Mutant: every fitting parameter shares one implementation object.
NewImplIdShared(h) == 1

\* new HullWhiteImpl(...): a fresh object.
NewImplId(h) == CHOOSE i \in ImplIds :
                    /\ ~h.impls[i].alive
                    /\ \A j \in ImplIds : ~h.impls[j].alive => i <= j

\* TermStructureFittingParameter(impl): a Parameter with no params of its own.
Parameter(impl) == [impl_ |-> impl, params_ |-> << >>]

\* Parameter::operator()(t)
Parameter_call(p, h, t) == HullWhiteImpl_value(h.impls[p.impl_], h, p.params_, t)

\* Mutant: the implementation gets a handle of its own, linked to the curve
\* of the moment, instead of a copy of the caller's handle.
FittingParameterDetached(h, termStructure, a, sigma) ==
    LET id == NewImplId(h)
    IN  [heap    |-> [h EXCEPT !.links[2] = h.links[termStructure],
                               !.impls[id] = HullWhiteImpl(2, a, sigma)],
         param   |-> Parameter(id),
         queries |-> << >>]

\* Mutant: the constructor looks the forward rate up at t = 0 straight away.
FittingParameterEager(h, termStructure, a, sigma) ==
    LET id == NewImplId(h)
    IN  [heap    |-> [h EXCEPT !.impls[id] = HullWhiteImpl(termStructure, a, sigma)],
         param   |-> Parameter(id),
         queries |-> << [curve |-> h.links[termStructure], t |-> Fin(0)] >>]

\* The constructor: the heap with the new implementation, the parameter, and
\* the forward-rate queries issued on the way.
FittingParameter(h, termStructure, a, sigma) ==
    LET id == NewImplId(h)
    IN  [heap    |-> [h EXCEPT !.impls[id] = HullWhiteImpl(termStructure, a, sigma)],
         param   |-> Parameter(id),
         queries |-> << >>]

-----------------------------------------------------------------------------
(* HullWhite::Dynamics                                                     *)

OrnsteinUhlenbeckProcess(a, sigma) == [a |-> a, sigma |-> sigma]

Dynamics(fitting, a, sigma) ==
    [fitting_ |-> fitting, process |-> OrnsteinUhlenbeckProcess(a, sigma)]

NoDyn == Dynamics(Parameter(0), Fin(0), Fin(0))

\* Mutant: a failed lookup is swallowed and the rate returned unshifted.
Dynamics_variableSwallows(d, h, t, r) ==
    LET f == Parameter_call(d.fitting_, h, t)
    IN  [res     |-> IF IsThrow(f.res) THEN r ELSE FSub(r, f.res),
         queries |-> f.queries]

Dynamics_variable(d, h, t, r) ==
    LET f == Parameter_call(d.fitting_, h, t)
    IN  [res     |-> IF IsThrow(f.res) THEN f.res ELSE FSub(r, f.res),
         queries |-> f.queries]

\* Mutant: shortRate subtracts the shift, as variable does.
Dynamics_shortRateSubtracts(d, h, t, x) ==
    LET f == Parameter_call(d.fitting_, h, t)
    IN  [res     |-> IF IsThrow(f.res) THEN f.res ELSE FSub(x, f.res),
         queries |-> f.queries]

Dynamics_shortRate(d, h, t, x) ==
    LET f == Parameter_call(d.fitting_, h, t)
    IN  [res     |-> IF IsThrow(f.res) THEN f.res ELSE FAdd(x, f.res),
         queries |-> f.queries]

\* HullWhite::dynamics()
HullWhite_dynamics(m) == Dynamics(m.phi_, m.a, m.sigma)

-----------------------------------------------------------------------------
(* class HullWhite: the parts whose bodies are outside the header          *)

\* The model reflects its constants and curve handle in phi_.
Consistent(m, h) ==
    LET impl == h.impls[m.phi_.impl_]
    IN  /\ impl.alive
        /\ impl.a_ = m.a
        /\ impl.sigma_ = m.sigma
        /\ impl.termStructure_ = m.termStructure

\* HullWhite::generateParameters(): phi_ = FittingParameter(termStructure(), a(), sigma())
HullWhite_generateParameters(m, h) ==
    LET fp == FittingParameter(h, m.termStructure, m.a, m.sigma)
    IN  [model |-> [m EXCEPT !.phi_ = fp.param], heap |-> fp.heap, queries |-> fp.queries]

\* HullWhite::HullWhite(termStructure, a, sigma)
HullWhite(h, termStructure, a, sigma) ==
    HullWhite_generateParameters(
        [a |-> a, sigma |-> sigma, termStructure |-> termStructure, phi_ |-> Parameter(0)], h)

PreconditionViolation == [cls |-> "precondition", v |-> 0]

\* A time grid the lattice can be built on: at least two increasing times.
ValidGrid(grid) ==
    /\ Len(grid) >= 2
    /\ \A i \in 1 .. (Len(grid) - 1) : grid[i].v < grid[i + 1].v

RECURSIVE TreeShifts(_, _, _, _)
\* phi(t_i) for the grid nodes from i on; stops at the first error.
TreeShifts(m, h, grid, i) ==
    IF i > Len(grid) THEN [res |-> << >>, queries |-> << >>, thrown |-> FALSE]
    ELSE LET f == Parameter_call(m.phi_, h, grid[i])
         IN  IF IsThrow(f.res)
             THEN [res |-> f.res, queries |-> f.queries, thrown |-> TRUE]
             ELSE LET rest == TreeShifts(m, h, grid, i + 1)
                  IN  [res     |-> IF rest.thrown THEN rest.res ELSE <<f.res>> \o rest.res,
                       queries |-> f.queries \o rest.queries,
                       thrown  |-> rest.thrown]

\* HullWhite::tree(grid): the level shift phi(t_i) at each grid node.
HullWhite_tree(m, h, grid) ==
    IF ~ValidGrid(grid) THEN [res |-> PreconditionViolation, queries |-> << >>]
    ELSE LET s == TreeShifts(m, h, grid, 1) IN [res |-> s.res, queries |-> s.queries]

\* Mutant: the ordering check is strict and rejects maturity = bondMaturity.
HullWhite_discountBondOptionStrict(type, strike, maturity, bondMaturity) ==
    IF ~(bondMaturity.v > maturity.v /\ maturity.v >= 0)
    THEN [kind |-> "precondition", branch |-> "none", divisor |-> Fin(One)]
    ELSE [kind |-> "price", branch |-> "closedForm",
          divisor |-> FSub(bondMaturity, maturity)]

\* HullWhite::discountBondOption: the ordering check and the branch taken.
\* divisor is the time to maturity the closed form divides by.
HullWhite_discountBondOption(type, strike, maturity, bondMaturity) ==
    IF ~(bondMaturity.v >= maturity.v /\ maturity.v >= 0)
    THEN [kind |-> "precondition", branch |-> "none", divisor |-> Fin(One)]
    ELSE IF maturity.v = bondMaturity.v
    THEN [kind |-> "price", branch |-> "degenerate", divisor |-> Fin(One)]
    ELSE [kind |-> "price", branch |-> "closedForm",
          divisor |-> FSub(bondMaturity, maturity)]

-----------------------------------------------------------------------------------------------------------------------------------------------------
(* Inputs *)

As         == {Fin(0), Fin(1), Fin(One)}
Sigmas     == {Fin(One \div 4), Fin(One)}
Times      == {Fin(0), Fin(One), Fin(2 * One)}
Rates      == {Fin(One \div 32), Fin(One + One \div 8)}
ParamSets  == {<< >>, << Fin(Half) >>}
Grids      == {<< Fin(0) >>, << Fin(One), Fin(0) >>, << Fin(0), Fin(One) >>,
               << Fin(0), Fin(One), Fin(2 * One) >>}
Types      == {"Call", "Put"}
Strikes    == {Fin(Half)}
\* <<maturity, bondMaturity>>: a negative maturity, a bond maturing before
\* the option, the two boundary cases and a regular case.
MaturityPairs == {<< Fin(-One), Fin(One) >>, << Fin(One), Fin(0) >>,
                  << Fin(0), Fin(0) >>, << Fin(One), Fin(One) >>,
                  << Fin(0), Fin(One) >>}

-----------------------------------------------------------------------------
(* State *)

VARIABLES
    heap,   \* [impls, links]: HullWhiteImpl objects and handle link cells
    model,  \* the HullWhite object: a, sigma, termStructure, phi_
    dyn,    \* the Dynamics object the caller holds, or NoDyn
    pc,     \* "idle", or "regen" inside a handler that is about to regenerate
    last    \* the last operation, its inputs, result and curve queries

vars == <<heap, model, dyn, pc, last>>

EmptyHeap(c) == [impls |-> [i \in ImplIds |-> NoImpl],
                 links |-> [l \in LinkIds |-> IF l = 1 THEN c ELSE 0]]

\* The implementation objects some handle still refers to.
Live(m, d) == {m.phi_.impl_, d.fitting_.impl_}

Init ==
    \E a \in As, sigma \in Sigmas, c \in CurveIds :
        LET built == HullWhite(EmptyHeap(c), 1, a, sigma)
        IN  /\ heap = built.heap
            /\ model = built.model
            /\ dyn = NoDyn
            /\ pc = "idle"
            /\ last = [op |-> "construct", queries |-> built.queries]

\* Model::setParams: the constants change, then the model regenerates.
SetParams(a, sigma) ==
    /\ pc = "idle"
    /\ model' = [model EXCEPT !.a = a, !.sigma = sigma]
    /\ pc' = "regen"
    /\ last' = [op |-> "setParams", queries |-> << >>]
    /\ UNCHANGED <<heap, dyn>>

\* RelinkableHandle::linkTo: the link cell changes and the observers (the
\* model) are notified, which regenerates.
LinkTo(c) ==
    /\ pc = "idle"
    /\ c # heap.links[model.termStructure]
    /\ heap' = [heap EXCEPT !.links[model.termStructure] = c]
    /\ pc' = "regen"
    /\ last' = [op |-> "linkTo", queries |-> << >>]
    /\ UNCHANGED <<model, dyn>>

\* The regeneration step of setParams and of the relink notification.
GenerateParameters ==
    /\ pc = "regen"
    /\ LET g == HullWhite_generateParameters(model, heap)
       IN  /\ model' = g.model
           /\ heap' = Handle_release(g.heap, Live(g.model, dyn))
           /\ last' = [op |-> "generateParameters", queries |-> g.queries]
    /\ pc' = "idle"
    /\ UNCHANGED dyn

GetDynamics ==
    /\ pc = "idle"
    /\ dyn = NoDyn
    /\ dyn' = HullWhite_dynamics(model)
    /\ last' = [op |-> "dynamics", consistent |-> Consistent(model, heap),
                queries |-> << >>]
    /\ UNCHANGED <<heap, model, pc>>

\* The caller lets go of its Dynamics handle.
DropDynamics ==
    /\ pc = "idle"
    /\ dyn # NoDyn
    /\ dyn' = NoDyn
    /\ heap' = Handle_release(heap, Live(model, NoDyn))
    /\ last' = [op |-> "drop", queries |-> << >>]
    /\ UNCHANGED <<model, pc>>

CallValue(params, t) ==
    /\ pc = "idle"
    /\ LET r == HullWhiteImpl_value(heap.impls[model.phi_.impl_], heap, params, t)
       IN  last' = [op |-> "value", params |-> params,
                    t |-> t, res |-> r.res, queries |-> r.queries]
    /\ UNCHANGED <<heap, model, dyn, pc>>

CallVariable(t, r) ==
    /\ pc = "idle"
    /\ dyn # NoDyn
    /\ LET o == Dynamics_variable(dyn, heap, t, r)
       IN  last' = [op |-> "variable", t |-> t, arg |-> r,
                    res |-> o.res, queries |-> o.queries]
    /\ UNCHANGED <<heap, model, dyn, pc>>

CallShortRate(t, x) ==
    /\ pc = "idle"
    /\ dyn # NoDyn
    /\ LET o == Dynamics_shortRate(dyn, heap, t, x)
       IN  last' = [op |-> "shortRate", t |-> t, arg |-> x,
                    res |-> o.res, queries |-> o.queries]
    /\ UNCHANGED <<heap, model, dyn, pc>>

CallTree(grid) ==
    /\ pc = "idle"
    /\ LET o == HullWhite_tree(model, heap, grid)
       IN  last' = [op |-> "tree", grid |-> grid, consistent |-> Consistent(model, heap),
                    res |-> o.res, queries |-> o.queries]
    /\ UNCHANGED <<heap, model, dyn, pc>>

CallDiscountBondOption(type, strike, maturity, bondMaturity) ==
    /\ pc = "idle"
    /\ last' = [op |-> "discountBondOption", type |-> type, strike |-> strike,
                maturity |-> maturity, bondMaturity |-> bondMaturity,
                consistent |-> Consistent(model, heap),
                res |-> HullWhite_discountBondOption(type, strike, maturity, bondMaturity),
                queries |-> << >>]
    /\ UNCHANGED <<heap, model, dyn, pc>>

\* Construction aside, what happens to the model and to the caller's handles.
Lifecycle ==
    \/ \E a \in As, sigma \in Sigmas : SetParams(a, sigma)
    \/ \E c \in CurveIds : LinkTo(c)
    \/ GenerateParameters
    \/ GetDynamics
    \/ DropDynamics

\* The model with the evaluations of the fitting parameter and the transforms.
Next ==
    \/ Lifecycle
    \/ \E params \in ParamSets, t \in Times : CallValue(params, t)
    \/ \E t \in Times, r \in Rates : CallVariable(t, r)
    \/ \E t \in Times, x \in Rates : CallShortRate(t, x)

Spec == Init /\ [][Next]_vars

\* The model with the pricing and tree operations.
NextPricing ==
    \/ Lifecycle
    \/ \E grid \in Grids : CallTree(grid)
    \/ \E type \in Types, strike \in Strikes, m \in MaturityPairs :
            CallDiscountBondOption(type, strike, m[1], m[2])

SpecPricing == Init /\ [][NextPricing]_vars

-----------------------------------------------------------------------------
(* Claims *)

\* phi(t) as the Dynamics the caller holds evaluates it.
HeldPhi(t) == Parameter_call(dyn.fitting_, heap, t).res

\* shortRate(t, variable(t, r)) and variable(t, shortRate(t, x)) on the held Dynamics.
RateRoundTrip(t, r) ==
    Dynamics_shortRate(dyn, heap, t, Dynamics_variable(dyn, heap, t, r).res).res
StateRoundTrip(t, x) ==
    Dynamics_variable(dyn, heap, t, Dynamics_shortRate(dyn, heap, t, x).res).res

\* C1 as stated: wherever phi(t) is a finite number, the two transforms of a
\* held Dynamics are exact mutual inverses.
C1_ExactInverse ==
    dyn # NoDyn =>
        \A t \in Times, r \in Rates :
            IsFin(HeldPhi(t)) =>
                /\ RateRoundTrip(t, r) = r
                /\ StateRoundTrip(t, r) = r

\* Both compositions are within 2^(2-Precision) * (|r| + |phi|) of r.
WithinRounding(y, r, phi) ==
    /\ IsFin(y)
    /\ Abs(y.v - r.v) * 2^(Precision - 2) <= Abs(r.v) + Abs(phi.v)

\* C1 amended: the transforms are mutual inverses up to the rounding of the
\* two floating-point operations: the round trip differs from r by at most
\* 2 * epsilon * (|r| + |phi(t)|), epsilon = 2^(1-Precision).  Where phi(t)
\* is NaN the round trip is NaN, and where the curve lookup throws, the
\* transforms throw the curve's error.
C1_InverseUpToRounding ==
    dyn # NoDyn =>
        \A t \in Times, r \in Rates :
            LET phi == HeldPhi(t)
            IN  IF IsThrow(phi)
                THEN /\ Dynamics_variable(dyn, heap, t, r).res = phi
                     /\ Dynamics_shortRate(dyn, heap, t, r).res = phi
                ELSE IF IsNaN(phi)
                THEN IsNaN(RateRoundTrip(t, r)) /\ IsNaN(StateRoundTrip(t, r))
                ELSE /\ WithinRounding(RateRoundTrip(t, r), r, phi)
                     /\ WithinRounding(StateRoundTrip(t, r), r, phi)

\* C1 witness: variable(t, r) has returned a number x, and shortRate(t, x)
\* differs from r by a rounding error.
C1_Witness ==
    /\ last.op = "variable"
    /\ dyn # NoDyn
    /\ IsFin(last.res)
    /\ IsFin(Dynamics_shortRate(dyn, heap, last.t, last.res).res)
    /\ Dynamics_shortRate(dyn, heap, last.t, last.res).res # last.arg

-----------------------------------------------------------------------------

\* The curve the model's handle is linked to.
LinkedCurve == RelinkableHandle_deref(heap, model.termStructure)

\* The implementation object behind the model's phi_.
ModelImpl == heap.impls[model.phi_.impl_]

\* 0.5 * [sigma * (1 - e^(-a*t)) / a]^2 in double arithmetic.
ConvexityAdjustment(a, sigma, t) ==
    LET bracket == FDiv(FMul(sigma, FSub(Fin(One), FExp(FMul(FNeg(a), t)))), a)
    IN  FMul(FMul(Fin(Half), bracket), bracket)

\* f(t) + convexity adjustment on curve c, or the curve's error.
AnalyticPhi(c, a, sigma, t) ==
    IF t.v < 0 \/ t.v > Curve_maxTime(c) THEN CurveLookupError(c)
    ELSE FAdd(Curve_forwardRate(c, t), ConvexityAdjustment(a, sigma, t))

EvalOps == {"value", "variable", "shortRate"}

\* C2: an evaluation of the fitting parameter returns f(t) of the linked curve
\* plus 0.5*[sigma*(1-e^(-a*t))/a]^2 for the a and sigma captured when the
\* parameter was built (the ones its Dynamics was built with), whatever params
\* array is passed to value().
C2_ValueIsForwardPlusAdjustment ==
    /\ last.op = "value" =>
          last.res = AnalyticPhi(LinkedCurve, ModelImpl.a_, ModelImpl.sigma_, last.t)
    /\ (last.op = "variable" /\ ~IsThrow(last.res)) =>
          last.res = FSub(last.arg, AnalyticPhi(LinkedCurve, dyn.process.a,
                                                dyn.process.sigma, last.t))
    /\ (last.op = "shortRate" /\ ~IsThrow(last.res)) =>
          last.res = FAdd(last.arg, AnalyticPhi(LinkedCurve, dyn.process.a,
                                                dyn.process.sigma, last.t))
    /\ \A t \in Times, p1 \in ParamSets, p2 \in ParamSets :
          HullWhiteImpl_value(ModelImpl, heap, p1, t).res
              = HullWhiteImpl_value(ModelImpl, heap, p2, t).res

\* C2 witness: value() was called with a non-empty params array, a > 0 and
\* t > 0, and returned a number above the forward rate.
C2_Witness ==
    /\ last.op = "value"
    /\ last.params # << >>
    /\ ModelImpl.a_.v > 0
    /\ IsFin(last.res)
    /\ last.res.v > Curve_forwardRate(LinkedCurve, last.t).v

\* C4: every evaluation of the fitting parameter, through the model's phi_
\* or through a Dynamics obtained earlier, queries the curve the handle is
\* linked to now, and fails exactly where that curve has no forward rate.
C4_ReadsLinkedCurve ==
    /\ last.op \in EvalOps => last.queries[1].curve = LinkedCurve
    /\ \A t \in Times :
          LET v == Parameter_call(model.phi_, heap, t)
          IN  /\ v.queries = << [curve |-> LinkedCurve, t |-> t] >>
              /\ IsThrow(v.res) <=> t.v > Curve_maxTime(LinkedCurve)
              /\ IsThrow(v.res) => v.res = CurveLookupError(LinkedCurve)
    /\ dyn # NoDyn =>
          \A t \in Times, r \in Rates :
              LET v == Dynamics_variable(dyn, heap, t, r)
                  s == Dynamics_shortRate(dyn, heap, t, r)
              IN  /\ v.queries = << [curve |-> LinkedCurve, t |-> t] >>
                  /\ s.queries = << [curve |-> LinkedCurve, t |-> t] >>
                  /\ IsThrow(v.res) <=> t.v > Curve_maxTime(LinkedCurve)
                  /\ IsThrow(s.res) <=> t.v > Curve_maxTime(LinkedCurve)

\* C4 witness: the handle has just been relinked while the caller holds a
\* Dynamics obtained before, whose variable() now reads the new curve.
C4_Witness ==
    /\ last.op = "linkTo"
    /\ dyn # NoDyn
    /\ Dynamics_variable(dyn, heap, Fin(One), Fin(0)).queries[1].curve = LinkedCurve
    /\ LinkedCurve = 2

\* The mean-reversion speed is zero or the smallest positive double.
NearZero(a) == IsFin(a) /\ 0 <= a.v /\ a.v <= 1

\* f(t) + 0.5*(sigma*t)^2, the limit of phi(t) as a -> 0.
LimitPhi(c, sigma, t) ==
    LET st == FMul(sigma, t)
    IN  FAdd(Curve_forwardRate(c, t), FMul(FMul(Fin(Half), st), st))

\* C5 as stated: with a zero or near zero, value() returns f(t) + 0.5*(sigma*t)^2.
C5_LimitingCase ==
    (last.op = "value" /\ NearZero(ModelImpl.a_) /\ ~IsThrow(last.res)) =>
        last.res = LimitPhi(LinkedCurve, ModelImpl.sigma_, last.t)

\* An evaluation has just been made.
EvalStep == last' # last /\ last'.op \in EvalOps

\* C6: an evaluation at a time the linked curve cannot serve returns the
\* curve's own error and nothing else; no evaluation, failed or not, changes
\* the model, the heap or the caller's Dynamics, so that every evaluation
\* gives after it what it gave before.
C6_ErrorPropagatedStateKept ==
    [][EvalStep =>
          /\ UNCHANGED <<heap, model, dyn, pc>>
          /\ last'.t.v > Curve_maxTime(LinkedCurve) =>
                last'.res = CurveLookupError(LinkedCurve)
          /\ last'.t.v <= Curve_maxTime(LinkedCurve) => ~IsThrow(last'.res)
          /\ \A t \in Times :
                Parameter_call(model'.phi_, heap', t) = Parameter_call(model.phi_, heap, t)
      ]_vars

\* C6 witness: variable() has failed with the curve's error, and the same
\* Dynamics still evaluates at a time inside the curve's domain.
C6_Witness ==
    /\ last.op = "variable"
    /\ IsThrow(last.res)
    /\ last.res = CurveLookupError(LinkedCurve)
    /\ dyn # NoDyn
    /\ IsFin(Dynamics_variable(dyn, heap, Fin(One), last.arg).res)

\* C9: building the fitting parameter (construction, regeneration) and
\* dynamics() query the curve not at all; every evaluation at t queries
\* forward(t) exactly once, also right after an evaluation at the same t;
\* and an evaluation changes neither the model nor the parameter.
C9_LazyEvaluation ==
    /\ [](/\ last.op \in {"construct", "generateParameters", "dynamics"} =>
                last.queries = << >>
          /\ last.op \in EvalOps =>
                /\ Len(last.queries) = 1
                /\ last.queries[1].t = last.t
                /\ Len(Parameter_call(model.phi_, heap, last.t).queries) = 1)
    /\ [][EvalStep => UNCHANGED <<heap, model, dyn>>]_vars

\* C9 witness: shortRate() was evaluated and made its single lookup.
C9_Witness ==
    /\ last.op = "shortRate"
    /\ last.queries = << [curve |-> LinkedCurve, t |-> last.t] >>
    /\ IsFin(last.res)

\* C10: while the caller holds a Dynamics, the object and the implementation
\* behind its fitting parameter do not change, whatever happens to the
\* model; the constants of the implementation are those of its process; and
\* a Dynamics just obtained carries the model's current constants.
C10_DynamicsIsSnapshot ==
    /\ [](dyn # NoDyn =>
            /\ heap.impls[dyn.fitting_.impl_].alive
            /\ heap.impls[dyn.fitting_.impl_].a_ = dyn.process.a
            /\ heap.impls[dyn.fitting_.impl_].sigma_ = dyn.process.sigma)
    /\ [][/\ (dyn # NoDyn /\ dyn' # NoDyn) =>
                /\ dyn' = dyn
                /\ heap'.impls[dyn.fitting_.impl_] = heap.impls[dyn.fitting_.impl_]
          /\ (dyn = NoDyn /\ dyn' # NoDyn) =>
                /\ dyn'.process = [a |-> model.a, sigma |-> model.sigma]
                /\ dyn'.fitting_ = model.phi_
      ]_vars

\* C10 witness: the constants were changed and regenerated while the caller
\* held a Dynamics, which was then used with the constants it was built with.
C10_Witness ==
    /\ last.op = "variable"
    /\ dyn # NoDyn
    /\ model.a # dyn.process.a
    /\ model.sigma # dyn.process.sigma
    /\ ModelImpl.a_ = model.a
    /\ heap.impls[dyn.fitting_.impl_].a_ = dyn.process.a
    /\ IsFin(last.res)

PricingOps == {"dynamics", "tree", "discountBondOption"}

\* C3: dynamics(), tree() and discountBondOption() always run on a
\* Consistent model; construction and regeneration leave the model
\* Consistent, a change of a constant leaves it not Consistent until the
\* regeneration that follows, and dynamics() hands out the model's phi_.
C3_PricingRunsConsistent ==
    /\ [](/\ pc = "idle" => Consistent(model, heap)
          /\ last.op \in PricingOps => last.consistent
          /\ last.op = "dynamics" =>
                /\ dyn.fitting_ = model.phi_
                /\ ModelImpl.a_ = dyn.process.a
                /\ ModelImpl.sigma_ = dyn.process.sigma
                /\ ModelImpl.termStructure_ = model.termStructure)
    /\ [][/\ (pc = "idle" /\ pc' = "regen" /\ model' # model) =>
                ~Consistent(model', heap')
          /\ (pc = "regen" /\ pc' = "idle") =>
                /\ Consistent(model', heap')
                /\ model'.phi_ # model.phi_
      ]_vars

\* C3 witness: dynamics() was called on a model that was regenerated after
\* construction.
C3_Witness ==
    /\ last.op = "dynamics"
    /\ last.consistent
    /\ model.phi_.impl_ # 1

\* C7: discountBondOption reports a precondition failure exactly when
\* bondMaturity >= maturity >= 0 is violated, and prices the boundary case
\* maturity = bondMaturity without dividing by the zero time to maturity.
C7_MaturityOrdering ==
    last.op = "discountBondOption" =>
        LET ordered == last.bondMaturity.v >= last.maturity.v /\ last.maturity.v >= 0
        IN  /\ ~ordered <=> last.res.kind = "precondition"
            /\ ordered <=> last.res.kind = "price"
            /\ (ordered /\ last.maturity = last.bondMaturity) =>
                   /\ last.res.branch = "degenerate"
                   /\ last.res.divisor.v # 0
            /\ last.res.branch = "closedForm" => last.res.divisor.v > 0

\* C7 witness: the boundary case maturity = bondMaturity was priced.
C7_Witness ==
    /\ last.op = "discountBondOption"
    /\ last.maturity = last.bondMaturity
    /\ last.res.kind = "price"
====
